---- MODULE Spec2Model ----
(***************************************************************************)
(* TalentScan AI (src/src/App.tsx): the resume analysis function           *)
(* analyzeResume and the state it is applied to.                           *)
(*                                                                         *)
(* Texts are JavaScript strings.  A string is taken apart into its         *)
(* sequence of one-character strings (Chars) and every string operation    *)
(* of the source (toLowerCase, includes, split, trim, the two regular      *)
(* expressions, parseInt) is computed on that sequence.  Numbers are       *)
(* JavaScript numbers: the scoring arithmetic is carried out on IEEE-754   *)
(* binary64 values with round-to-nearest-even (section "binary64").        *)
(*                                                                         *)
(* Spec is one call of analyzeResume on a text and a role id.  AppSpec is  *)
(* the App component: its five pieces of state, the item it keeps in       *)
(* sessionStorage and the setTimeout callbacks that have not run yet, with *)
(* one action per event handler and one for the timer callback.            *)
(***************************************************************************)
EXTENDS Integers, Naturals, Sequences, FiniteSets, TLC

VARIABLES
    text,      \* argument `text` of analyzeResume
    roleId,    \* argument `roleId` of analyzeResume
    pc,        \* "ready" before the call, "returned" after it
    result,    \* the AnalysisResult returned, NoResult before the call
    resumeText,      \* App state: the content of the text area
    selectedRole,    \* App state: the id of the role chosen
    isAnalyzing,     \* App state: an analysis is pending
    currentResult,   \* App state: the result displayed, NoResult for null
    history,         \* App state: the results kept, newest first
    sessionStorage,  \* the item 'talent_scan_history'
    timers,          \* the setTimeout callbacks not yet run, oldest first
    clock,           \* analyses completed since the page was loaded
    deletions        \* delete buttons clicked since the page was loaded

callVars == <<text, roleId, pc, result>>
appVars == <<resumeText, selectedRole, isAnalyzing, currentResult, history,
             sessionStorage, timers, clock, deletions>>
vars == <<callVars, appVars>>

(***************************************************************************)
(* Characters and strings                                                  *)
(***************************************************************************)
Chars(s) == [i \in 1..Len(s) |-> SubSeq(s, i, i)]

RECURSIVE Str(_)
Str(cs) == IF cs = <<>> THEN "" ELSE Head(cs) \o Str(Tail(cs))

UpperLetters == Chars("ABCDEFGHIJKLMNOPQRSTUVWXYZ")
LowerLetters == Chars("abcdefghijklmnopqrstuvwxyz")
Digits == Chars("0123456789")

\* String.prototype.toLowerCase on one character (ASCII letters)
lowerChar(c) ==
    IF \E i \in 1..26 : UpperLetters[i] = c
    THEN LowerLetters[CHOOSE i \in 1..26 : UpperLetters[i] = c]
    ELSE c

toLowerCase(cs) == [i \in 1..Len(cs) |-> lowerChar(cs[i])]

\* the characters String.prototype.trim removes and \s matches
WhiteSpace == {" ", "\t", "\n", "\r", "\f"}

IsDigit(c) == \E i \in 1..10 : Digits[i] = c

DigitValue(c) == (CHOOSE i \in 1..10 : Digits[i] = c) - 1

\* does the sequence pat occur in cs starting at index i (1-based)
OccursAt(cs, pat, i) ==
    /\ i >= 1
    /\ i + Len(pat) - 1 <= Len(cs)
    /\ \A j \in 1..Len(pat) : cs[i + j - 1] = pat[j]

\* String.prototype.includes
includes(cs, pat) == \E i \in 1..(Len(cs) - Len(pat) + 1) : OccursAt(cs, pat, i)

\* text.split('\n')[0] : the characters before the first line feed
splitFirst(cs) ==
    IF \E i \in 1..Len(cs) : cs[i] = "\n"
    THEN SubSeq(cs, 1, (CHOOSE i \in 1..Len(cs) :
                          /\ cs[i] = "\n"
                          /\ \A j \in 1..(i - 1) : cs[j] # "\n") - 1)
    ELSE cs

\* String.prototype.trim
trim(cs) ==
    IF \A i \in 1..Len(cs) : cs[i] \in WhiteSpace
    THEN <<>>
    ELSE LET first == CHOOSE i \in 1..Len(cs) :
                        /\ cs[i] \notin WhiteSpace
                        /\ \A j \in 1..(i - 1) : cs[j] \in WhiteSpace
             last  == CHOOSE i \in 1..Len(cs) :
                        /\ cs[i] \notin WhiteSpace
                        /\ \A j \in (i + 1)..Len(cs) : cs[j] \in WhiteSpace
         IN  SubSeq(cs, first, last)

(***************************************************************************)
(* binary64                                                                *)
(*                                                                         *)
(* A JavaScript number is an IEEE-754 binary64 value.  The non-negative    *)
(* finite values the scoring uses are kept exactly: [m, e] stands for      *)
(* m * 2^e, where m is a natural number of exactly 53 bits (zero is        *)
(* m = <<>>, e = 0).  m is written in base 2^14, least significant limb    *)
(* first, without leading zero limbs.  Every operation computes the exact  *)
(* result and rounds it to nearest, ties to even, as the language          *)
(* prescribes for / * + on numbers.                                        *)
(***************************************************************************)
LimbBits == 14
Limb == 2^LimbBits
Precision == 53

RECURSIVE BNorm(_)
BNorm(a) ==
    IF a = <<>> THEN <<>>
    ELSE IF a[Len(a)] = 0 THEN BNorm(SubSeq(a, 1, Len(a) - 1)) ELSE a

RECURSIVE BFromInt(_)
BFromInt(n) == IF n = 0 THEN <<>> ELSE <<n % Limb>> \o BFromInt(n \div Limb)

RECURSIVE BToInt(_)
BToInt(a) == IF a = <<>> THEN 0 ELSE Head(a) + Limb * BToInt(Tail(a))

RECURSIVE BAddC(_, _, _)
BAddC(a, b, c) ==
    IF a = <<>> /\ b = <<>>
    THEN (IF c = 0 THEN <<>> ELSE <<c>>)
    ELSE LET x == IF a = <<>> THEN 0 ELSE Head(a)
             y == IF b = <<>> THEN 0 ELSE Head(b)
             s == x + y + c
         IN  <<s % Limb>> \o BAddC(IF a = <<>> THEN <<>> ELSE Tail(a),
                                   IF b = <<>> THEN <<>> ELSE Tail(b),
                                   s \div Limb)

BAdd(a, b) == BAddC(a, b, 0)

RECURSIVE BMulSmallC(_, _, _)
BMulSmallC(a, k, c) ==
    IF a = <<>>
    THEN (IF c = 0 THEN <<>> ELSE <<c>>)
    ELSE LET p == Head(a) * k + c
         IN  <<p % Limb>> \o BMulSmallC(Tail(a), k, p \div Limb)

\* a * k for one limb k
BMulSmall(a, k) == IF k = 0 THEN <<>> ELSE BMulSmallC(a, k, 0)

\* a * Limb^n
ShiftLimbs(a, n) == IF a = <<>> THEN <<>> ELSE [i \in 1..n |-> 0] \o a

RECURSIVE BMul(_, _)
BMul(a, b) ==
    IF a = <<>> \/ b = <<>> THEN <<>>
    ELSE BAdd(BMulSmall(a, Head(b)), ShiftLimbs(BMul(a, Tail(b)), 1))

BitLenSmall(n) == CHOOSE k \in 0..LimbBits : n < 2^k /\ (k = 0 \/ 2^(k - 1) <= n)

BitLen(a) ==
    IF a = <<>> THEN 0 ELSE LimbBits * (Len(a) - 1) + BitLenSmall(a[Len(a)])

\* a * 2^k
BShl(a, k) == ShiftLimbs(BMulSmall(a, 2^(k % LimbBits)), k \div LimbBits)

\* floor(a / 2^k)
BShr(a, k) ==
    LET q == k \div LimbBits
        d == 2^(k % LimbBits)
        b == IF q >= Len(a) THEN <<>> ELSE SubSeq(a, q + 1, Len(a))
    IN  BNorm([i \in 1..Len(b) |->
                 (b[i] \div d)
                 + (IF i < Len(b) THEN (b[i + 1] % d) * (Limb \div d) ELSE 0)])

\* a mod 2^k
BLow(a, k) ==
    LET q == k \div LimbBits
    IN  IF q >= Len(a) THEN a
        ELSE BNorm(SubSeq(a, 1, q) \o <<a[q + 1] % 2^(k % LimbBits)>>)

BOdd(a) == a # <<>> /\ a[1] % 2 = 1

\* -1, 0, 1 as a < b, a = b, a > b
BCmp(a, b) ==
    IF Len(a) # Len(b) THEN (IF Len(a) < Len(b) THEN -1 ELSE 1)
    ELSE IF a = b THEN 0
    ELSE LET i == CHOOSE i \in 1..Len(a) :
                    /\ a[i] # b[i]
                    /\ \A j \in (i + 1)..Len(a) : a[j] = b[j]
         IN  IF a[i] < b[i] THEN -1 ELSE 1

FZero == [m |-> <<>>, e |-> 0]

\* the binary64 value nearest to n * 2^e (plus a positive amount below 2^e
\* when sticky), ties to even
RoundNearestEven(n, e, sticky) ==
    IF n = <<>> THEN FZero
    ELSE LET len == BitLen(n) IN
         IF len <= Precision
         THEN [m |-> BShl(n, Precision - len), e |-> e - (Precision - len)]
         ELSE LET d    == len - Precision
                  q    == BShr(n, d)
                  c    == BCmp(BLow(n, d), BShl(<<1>>, d - 1))
                  up   == c = 1 \/ (c = 0 /\ (sticky \/ BOdd(q)))
                  q1   == IF up THEN BAdd(q, <<1>>) ELSE q
              IN  IF BitLen(q1) > Precision
                  THEN [m |-> BShr(q1, 1), e |-> e + d + 1]
                  ELSE [m |-> q1, e |-> e + d]

\* an integer as a number
FFromInt(n) == RoundNearestEven(BFromInt(n), 0, FALSE)

\* x * y
FMul(x, y) == RoundNearestEven(BMul(x.m, y.m), x.e + y.e, FALSE)

\* x + y
FAdd(x, y) ==
    IF x.m = <<>> THEN y
    ELSE IF y.m = <<>> THEN x
    ELSE LET lo == IF x.e < y.e THEN x.e ELSE y.e
         IN  RoundNearestEven(BAdd(BShl(x.m, x.e - lo), BShl(y.m, y.e - lo)),
                              lo, FALSE)

\* the fraction digits of r / b in base Limb, most significant last
RECURSIVE FracLimbs(_, _, _)
FracLimbs(r, b, n) ==
    IF n = 0 THEN <<>>
    ELSE FracLimbs((r * Limb) % b, b, n - 1) \o <<(r * Limb) \div b>>

RECURSIVE FracRem(_, _, _)
FracRem(r, b, n) == IF n = 0 THEN r ELSE FracRem((r * Limb) % b, b, n - 1)

FracDigits == 5

\* a / b for integers a >= 0, b > 0 (both exactly representable)
FDivInt(a, b) ==
    RoundNearestEven(BNorm(FracLimbs(a % b, b, FracDigits) \o BFromInt(a \div b)),
                     -(LimbBits * FracDigits),
                     FracRem(a % b, b, FracDigits) # 0)

\* x < y
FLess(x, y) ==
    IF y.m = <<>> THEN FALSE
    ELSE IF x.m = <<>> THEN TRUE
    ELSE x.e < y.e \/ (x.e = y.e /\ BCmp(x.m, y.m) = -1)

\* Math.min(x, y)
FMin(x, y) == IF FLess(y, x) THEN y ELSE x

\* Math.floor(x), as an integer
FFloor(x) ==
    IF x.m = <<>> THEN 0
    ELSE IF x.e >= 0 THEN BToInt(BShl(x.m, x.e))
    ELSE BToInt(BShr(x.m, -x.e))

\* x / 2 (exact: only the exponent changes)
FDiv2(x) == IF x.m = <<>> THEN x ELSE [x EXCEPT !.e = @ - 1]

(***************************************************************************)
(* Constants & Mock Data                                                   *)
(***************************************************************************)
JOB_ROLES == <<
    [id |-> "frontend", title |-> "Frontend Developer",
     keywords |-> <<"React", "TypeScript", "Tailwind", "Next.js", "Vite",
                    "CSS", "HTML", "JavaScript", "Redux", "Testing Library">>,
     softSkills |-> <<"Communication", "Teamwork", "Problem Solving", "Agile">>,
     minYears |-> 3],
    [id |-> "data-scientist", title |-> "Data Scientist",
     keywords |-> <<"Python", "R", "SQL", "Machine Learning", "Pandas",
                    "NumPy", "Scikit-learn", "TensorFlow", "PyTorch",
                    "Statistics">>,
     softSkills |-> <<"Analytical Thinking", "Data Storytelling", "Curiosity">>,
     minYears |-> 2],
    [id |-> "product-manager", title |-> "Product Manager",
     keywords |-> <<"Roadmap", "Agile", "Scrum", "User Stories",
                    "Stakeholder Management", "Market Research", "KPIs",
                    "Product Discovery">>,
     softSkills |-> <<"Leadership", "Strategic Thinking", "Empathy",
                      "Negotiation">>,
     minYears |-> 5],
    [id |-> "ux-designer", title |-> "UX Designer",
     keywords |-> <<"Figma", "Adobe XD", "User Research", "Wireframing",
                    "Prototyping", "Design Systems", "Accessibility",
                    "Interaction Design">>,
     softSkills |-> <<"Creativity", "User Centricity", "Collaboration">>,
     minYears |-> 3] >>

DEGREES == <<"B.S.", "M.S.", "Ph.D.", "Bachelor", "Master", "Degree">>
CERTIFICATIONS == <<"AWS", "Google", "Certified", "Certificate">>

SAMPLE_RESUME ==
    "Alex Johnson\n"
    \o "alex.johnson@email.com | 555-0123 | San Francisco, CA\n"
    \o "\n"
    \o "SUMMARY\n"
    \o "Experienced Frontend Developer with 4 years of expertise in "
    \o "building scalable web applications using React and TypeScript. "
    \o "Passionate about clean code and user-centric design.\n"
    \o "\n"
    \o "EXPERIENCE\n"
    \o "Senior Frontend Engineer | TechFlow Solutions | 2021 - Present\n"
    \o "- Led the migration of a legacy dashboard to Next.js, improving "
    \o "load times by 40%.\n"
    \o "- Implemented a comprehensive design system using Tailwind "
    \o "CSS.\n"
    \o "- Mentored junior developers and conducted code reviews.\n"
    \o "\n"
    \o "Web Developer | Creative Pulse | 2019 - 2021\n"
    \o "- Developed responsive websites for various clients using "
    \o "JavaScript and CSS.\n"
    \o "- Collaborated with UX designers to implement pixel-perfect "
    \o "interfaces.\n"
    \o "\n"
    \o "EDUCATION\n"
    \o "B.S. in Computer Science | University of California, Berkeley | "
    \o "2015 - 2019\n"
    \o "\n"
    \o "SKILLS\n"
    \o "Technical: React, TypeScript, Next.js, Tailwind CSS, Redux, "
    \o "Jest, HTML5, CSS3, Git\n"
    \o "Soft: Communication, Teamwork, Problem Solving, Agile "
    \o "Methodologies"

UnknownCandidate == "Unknown Candidate"
NameLimit == 50

(***************************************************************************)
(* The two regular expressions of the experience analysis                  *)
(***************************************************************************)
\* the end of the longest run of characters in S that starts at i
\* (i - 1 when cs[i] is not in S)
RunEnd(cs, i, S) ==
    CHOOSE j \in (i - 1)..Len(cs) :
        /\ \A k \in i..j : cs[k] \in S
        /\ j = Len(cs) \/ cs[j + 1] \notin S

DigitChars == {Digits[i] : i \in 1..10}

\* pat at index i of cs, letters compared without case (flag i)
OccursAtIgnoreCase(cs, pat, i) ==
    /\ i + Len(pat) - 1 <= Len(cs)
    /\ \A j \in 1..Len(pat) : lowerChar(cs[i + j - 1]) = lowerChar(pat[j])

FourDigitsAt(cs, i) ==
    /\ i + 3 <= Len(cs)
    /\ \A k \in i..(i + 3) : cs[k] \in DigitChars

\* /\d+\s+years?/i anchored at i: index of the last matched character, 0 if
\* there is no match at i.  \d+ and \s+ are greedy and giving characters back
\* cannot help: what follows a shorter run is a digit, resp. white space.
YearMatchEnd(cs, i) ==
    LET dEnd == RunEnd(cs, i, DigitChars)
        sEnd == RunEnd(cs, dEnd + 1, WhiteSpace)
    IN  IF dEnd >= i /\ sEnd > dEnd /\ OccursAtIgnoreCase(cs, Chars("year"), sEnd + 1)
        THEN IF OccursAtIgnoreCase(cs, Chars("s"), sEnd + 5) THEN sEnd + 5 ELSE sEnd + 4
        ELSE 0

\* /\d{4}\s*-\s*(\d{4}|Present)/i anchored at i
DateRangeEnd(cs, i) ==
    LET hyphen == RunEnd(cs, i + 4, WhiteSpace) + 1
        tail   == RunEnd(cs, hyphen + 1, WhiteSpace) + 1
    IN  IF FourDigitsAt(cs, i) /\ hyphen <= Len(cs) /\ cs[hyphen] = "-"
        THEN IF FourDigitsAt(cs, tail) THEN tail + 3
             ELSE IF OccursAtIgnoreCase(cs, Chars("Present"), tail) THEN tail + 6
             ELSE 0
        ELSE 0

\* the least element of a non-empty set of integers
Least(S) == CHOOSE x \in S : \A y \in S : x <= y

\* text.match(/\d+\s+years?/gi): the matches from left to right, each search
\* starting after the previous match (<<>> stands for null)
RECURSIVE YearMatchesFrom(_, _)
YearMatchesFrom(cs, from) ==
    LET starts == {i \in from..Len(cs) : YearMatchEnd(cs, i) # 0}
    IN  IF starts = {} THEN <<>>
        ELSE <<SubSeq(cs, Least(starts), YearMatchEnd(cs, Least(starts)))>>
             \o YearMatchesFrom(cs, YearMatchEnd(cs, Least(starts)) + 1)

\* text.match(/\d{4}\s*-\s*(\d{4}|Present)/gi)
RECURSIVE DateRangesFrom(_, _)
DateRangesFrom(cs, from) ==
    LET starts == {i \in from..Len(cs) : DateRangeEnd(cs, i) # 0}
    IN  IF starts = {} THEN <<>>
        ELSE <<SubSeq(cs, Least(starts), DateRangeEnd(cs, Least(starts)))>>
             \o DateRangesFrom(cs, DateRangeEnd(cs, Least(starts)) + 1)

\* m.split(' ')[0]
splitSpaceFirst(cs) ==
    IF \E i \in 1..Len(cs) : cs[i] = " "
    THEN SubSeq(cs, 1, (CHOOSE i \in 1..Len(cs) :
                          /\ cs[i] = " "
                          /\ \A j \in 1..(i - 1) : cs[j] # " ") - 1)
    ELSE cs

\* the value of a sequence of decimal digits
RECURSIVE DecimalValue(_)
DecimalValue(ds) ==
    IF ds = <<>> THEN 0
    ELSE 10 * DecimalValue(SubSeq(ds, 1, Len(ds) - 1)) + DigitValue(ds[Len(ds)])

\* parseInt on a string that starts with a digit: its leading digits
parseInt(cs) == DecimalValue(SubSeq(cs, 1, RunEnd(cs, 1, DigitChars)))

\* Math.max(...xs) for non-empty xs
Max(xs) == CHOOSE x \in {xs[i] : i \in 1..Len(xs)} :
               \A j \in 1..Len(xs) : xs[j] <= x

(***************************************************************************)
(* Analysis Logic (Mock AI)                                                *)
(***************************************************************************)
\* a fallback to the last catalog entry instead of the first
ResolveRole_LastRole(id) ==
    IF \E i \in 1..Len(JOB_ROLES) : JOB_ROLES[i].id = id
    THEN JOB_ROLES[CHOOSE i \in 1..Len(JOB_ROLES) : JOB_ROLES[i].id = id]
    ELSE JOB_ROLES[Len(JOB_ROLES)]

\* JOB_ROLES.find(r => r.id === roleId) || JOB_ROLES[0]
ResolveRole(id) ==
    IF \E i \in 1..Len(JOB_ROLES) : JOB_ROLES[i].id = id
    THEN JOB_ROLES[CHOOSE i \in 1..Len(JOB_ROLES) :
                     /\ JOB_ROLES[i].id = id
                     /\ \A j \in 1..(i - 1) : JOB_ROLES[j].id # id]
    ELSE JOB_ROLES[1]

\* text.split('\n')[0].trim()
NameMatch(cs) == trim(splitFirst(cs))

\* the length taken before trimming
CandidateName_LengthBeforeTrim(cs) ==
    IF Len(splitFirst(cs)) < NameLimit THEN Str(NameMatch(cs)) ELSE UnknownCandidate

CandidateName(cs) ==
    IF Len(NameMatch(cs)) < NameLimit THEN Str(NameMatch(cs)) ELSE UnknownCandidate

\* keywords matched as they are spelled in the catalog
FoundSkills_CaseSensitive(keywords, normalizedText) ==
    SelectSeq(keywords, LAMBDA k : includes(normalizedText, Chars(k)))

\* role.keywords.filter(k => normalizedText.includes(k.toLowerCase())),
\* Array.prototype.filter being SelectSeq
FoundSkills(keywords, normalizedText) ==
    SelectSeq(keywords, LAMBDA k : includes(normalizedText, toLowerCase(Chars(k))))

\* tokens looked for with letter case ignored
FoundTokens_IgnoreCase(vocabulary, cs) ==
    SelectSeq(vocabulary, LAMBDA d : includes(toLowerCase(cs), toLowerCase(Chars(d))))

\* [...].filter(d => text.includes(d)), on the text as it was given
FoundTokens(vocabulary, cs) ==
    SelectSeq(vocabulary, LAMBDA d : includes(cs, Chars(d)))

\* the date ranges tried before the year phrases
Years_RangesFirst(cs) ==
    LET yearMatches == YearMatchesFrom(cs, 1)
        dateRanges  == DateRangesFrom(cs, 1)
    IN  IF dateRanges # <<>> THEN Len(dateRanges) * 2
        ELSE IF yearMatches # <<>>
        THEN Max([i \in 1..Len(yearMatches) |-> parseInt(splitSpaceFirst(yearMatches[i]))])
        ELSE 0

\* the experience analysis: the inferred years
Years(cs) ==
    LET yearMatches == YearMatchesFrom(cs, 1)
        dateRanges  == DateRangesFrom(cs, 1)
    IN  IF yearMatches # <<>>
        THEN Max([i \in 1..Len(yearMatches) |-> parseInt(splitSpaceFirst(yearMatches[i]))])
        ELSE IF dateRanges # <<>> THEN Len(dateRanges) * 2
        ELSE 0

\* the ratio without its cap
ExperienceRelevance_NoCap(years, minYears) ==
    FMul(FDivInt(years, minYears), FFromInt(100))

\* Math.min(100, (years / role.minYears) * 100)
ExperienceRelevance(years, minYears) ==
    FMin(FFromInt(100), FMul(FDivInt(years, minYears), FFromInt(100)))

\* (found / total) * 100
Percentage(found, total) == FMul(FDivInt(found, total), FFromInt(100))

\* education weighted 0.3 instead of 0.2
OverallScore_EducationWeight(skillsScore, experienceRelevance, educationScore) ==
    FFloor(FAdd(FAdd(FMul(skillsScore, FDivInt(5, 10)),
                     FMul(experienceRelevance, FDivInt(3, 10))),
                FMul(FFromInt(educationScore), FDivInt(3, 10))))

\* Math.floor((skillsScore * 0.5) + (experienceRelevance * 0.3) + (educationScore * 0.2))
OverallScore(skillsScore, experienceRelevance, educationScore) ==
    FFloor(FAdd(FAdd(FMul(skillsScore, FDivInt(5, 10)),
                     FMul(experienceRelevance, FDivInt(3, 10))),
                FMul(FFromInt(educationScore), FDivInt(2, 10))))

\* xs.slice(0, 2).join(', ')
JoinFirstTwo(xs) ==
    IF Len(xs) = 0 THEN ""
    ELSE IF Len(xs) = 1 THEN xs[1]
    ELSE xs[1] \o ", " \o xs[2]

SeqContains(xs, x) == \E i \in 1..Len(xs) : xs[i] = x

GreatDensity == "Great technical keyword density."
ExperienceMeets == "Experience level meets or exceeds role requirements."
AddCertifications ==
    "Consider adding industry-recognized certifications to boost credibility."
GoodCertification == "Good certification profile."
ElaborateSoftSkills ==
    "Elaborate more on soft skills like leadership or communication in your experience section."
SoftSkillsWell == "Soft skills are well-represented."
QuantifyAchievements ==
    "Quantify your achievements with more metrics (e.g., 'increased revenue by 20%')."
AlignSummary ==
    "Ensure your summary section directly aligns with the specific job description."

AddKeywords(role, foundTechSkills) ==
    "Add more technical keywords like "
    \o JoinFirstTwo(SelectSeq(role.keywords, LAMBDA k : ~SeqContains(foundTechSkills, k)))
    \o "."

HighlightProjects(years, minYears) ==
    "Highlight more relevant projects to compensate for " \o ToString(years)
    \o " years of experience (target: " \o ToString(minYears) \o "+)."

\* the gap text also at exactly half the keywords
Recommendations_AtMostHalf(role, foundTechSkills, foundSoftSkills, years, normalizedText) ==
    << IF 2 * Len(foundTechSkills) <= Len(role.keywords)
         THEN AddKeywords(role, foundTechSkills) ELSE GreatDensity,
       IF years < role.minYears
         THEN HighlightProjects(years, role.minYears) ELSE ExperienceMeets,
       IF ~includes(normalizedText, Chars("certification"))
         THEN AddCertifications ELSE GoodCertification,
       IF Len(foundSoftSkills) < 2 THEN ElaborateSoftSkills ELSE SoftSkillsWell,
       QuantifyAchievements,
       AlignSummary >>

\* slot 3 decided by the word "certified"
Recommendations_Certified(role, foundTechSkills, foundSoftSkills, years, normalizedText) ==
    << IF 2 * Len(foundTechSkills) < Len(role.keywords)
         THEN AddKeywords(role, foundTechSkills) ELSE GreatDensity,
       IF years < role.minYears
         THEN HighlightProjects(years, role.minYears) ELSE ExperienceMeets,
       IF ~includes(normalizedText, Chars("certified"))
         THEN AddCertifications ELSE GoodCertification,
       IF Len(foundSoftSkills) < 2 THEN ElaborateSoftSkills ELSE SoftSkillsWell,
       QuantifyAchievements,
       AlignSummary >>

Recommendations(role, foundTechSkills, foundSoftSkills, years, normalizedText) ==
    << IF 2 * Len(foundTechSkills) < Len(role.keywords)
         THEN AddKeywords(role, foundTechSkills) ELSE GreatDensity,
       IF years < role.minYears
         THEN HighlightProjects(years, role.minYears) ELSE ExperienceMeets,
       IF ~includes(normalizedText, Chars("certification"))
         THEN AddCertifications ELSE GoodCertification,
       IF Len(foundSoftSkills) < 2 THEN ElaborateSoftSkills ELSE SoftSkillsWell,
       QuantifyAchievements,
       AlignSummary >>

\* a range that includes its upper end
Proficiency_Inclusive(u, range, base) == FFloor(FMul(u, FFromInt(range + 1))) + base

\* Math.floor(Math.random() * range) + base, for the value u of Math.random()
Proficiency(u, range, base) == FFloor(FMul(u, FFromInt(range))) + base

\* analyzeResume(text, roleId).  random is the sequence of values Math.random()
\* returns to the calls in order, uuid the value of crypto.randomUUID() and
\* now the value of Date.now().
analyzeResume(txt, id, random, uuid, now) ==
    LET role == ResolveRole(id)
        cs == Chars(txt)
        normalizedText == toLowerCase(cs)
        foundTechSkills == FoundSkills(role.keywords, normalizedText)
        foundSoftSkills == FoundSkills(role.softSkills, normalizedText)
        years == Years(cs)
        experienceRelevance == ExperienceRelevance(years, role.minYears)
        degrees == FoundTokens(DEGREES, cs)
        certifications == FoundTokens(CERTIFICATIONS, cs)
        skillsScore == Percentage(Len(foundTechSkills), Len(role.keywords))
        softSkillsScore == Percentage(Len(foundSoftSkills), Len(role.softSkills))
        educationScore == IF Len(degrees) > 0 THEN 100 ELSE 50
    IN  [ id |-> uuid,
          timestamp |-> now,
          candidateName |-> CandidateName(cs),
          jobRole |-> role.title,
          score |-> OverallScore(skillsScore, experienceRelevance, educationScore),
          breakdown |-> [ skills |-> FFloor(FDiv2(FAdd(skillsScore, softSkillsScore))),
                          experience |-> FFloor(experienceRelevance),
                          education |-> educationScore ],
          skills |->
              [i \in 1..Len(foundTechSkills) |->
                  [name |-> foundTechSkills[i], type |-> "technical",
                   proficiency |-> Proficiency(random[i], 30, 70)]]
              \o [i \in 1..Len(foundSoftSkills) |->
                  [name |-> foundSoftSkills[i], type |-> "soft",
                   proficiency |->
                       Proficiency(random[Len(foundTechSkills) + i], 20, 80)]],
          experience |-> [ years |-> years,
                           relevance |-> FFloor(experienceRelevance),
                           summary |-> ToString(years)
                                       \o " years of experience in related fields." ],
          education |-> [ degrees |-> degrees, certifications |-> certifications ],
          recommendations |-> Recommendations(role, foundTechSkills, foundSoftSkills,
                                              years, normalizedText),
          rawText |-> txt ]

\* how many times analyzeResume(txt, id) calls Math.random()
RandomCalls(txt, id) ==
    LET role == ResolveRole(id)
        normalizedText == toLowerCase(Chars(txt))
    IN  Len(FoundSkills(role.keywords, normalizedText))
        + Len(FoundSkills(role.softSkills, normalizedText))

(***************************************************************************)
(* The inputs                                                              *)
(***************************************************************************)
\* A text is up to MaxFragments pieces of resume text, one after the other.
MaxFragments == 2

Fragments == {
    "\n",
    "B.S. React+TypeScript CSS",
    " Next.js & Vite: m.s. AWS",
    "2 years",
    "10\tYEARS",
    "2019 -2021",
    "-Present Agile",
    "teamwork, COMMUNICATION: 0 year",
    "Certifications" }

RECURSIVE TextsOf(_)
TextsOf(n) ==
    IF n = 0 THEN {""}
    ELSE TextsOf(n - 1) \cup {t \o f : t \in TextsOf(n - 1), f \in Fragments}

Texts == TextsOf(MaxFragments)

CatalogIds == {JOB_ROLES[i].id : i \in 1..Len(JOB_ROLES)}
UnknownIds == {"devops"}
RoleIds == CatalogIds \cup UnknownIds

\* Math.random() returns a number in [0, 1): zero and the largest number
\* below one, 1 - 2^-53
FAlmostOne ==
    [m |-> [i \in 1..(Precision \div LimbBits) |-> Limb - 1]
           \o <<2^(Precision % LimbBits) - 1>>,
     e |-> -Precision]
\* the values Math.random() returns to the n calls of one analysis: all at
\* the low end, all at the high end, or alternating
RandomStreams(n) ==
    { [i \in 1..n |-> FZero],
      [i \in 1..n |-> FAlmostOne],
      [i \in 1..n |-> IF i % 2 = 1 THEN FAlmostOne ELSE FZero] }

\* the values Math.random() returns to the n calls of an analysis the App
\* runs: all at the low end or all at the high end
AppRandomStreams(n) == {[i \in 1..n |-> FZero], [i \in 1..n |-> FAlmostOne]}

\* the values of crypto.randomUUID() and of Date.now()
UUIDs == {"uuid-1"}
Timestamps == {1000}

NoResult == [id |-> "null"]

(***************************************************************************)
(* The call                                                                *)
(***************************************************************************)
Init ==
    /\ text \in Texts
    /\ roleId \in RoleIds
    /\ pc = "ready"
    /\ result = NoResult
    /\ resumeText = ""
    /\ selectedRole = JOB_ROLES[1].id
    /\ isAnalyzing = FALSE
    /\ currentResult = NoResult
    /\ history = <<>>
    /\ sessionStorage = <<>>
    /\ timers = <<>>
    /\ clock = 0
    /\ deletions = 0

Analyze ==
    /\ pc = "ready"
    /\ \E uuid \in UUIDs, now \in Timestamps,
          random \in RandomStreams(RandomCalls(text, roleId)) :
           result' = analyzeResume(text, roleId, random, uuid, now)
    /\ pc' = "returned"
    /\ UNCHANGED <<text, roleId, appVars>>

Next == Analyze

Spec == Init /\ [][Next]_vars

(***************************************************************************)
(* The App component                                                       *)
(***************************************************************************)
\* the text typed into the text area, in place of what it holds: white space
\* alone; the resume comes from Load Sample
AppTexts == {" \n"}

\* the role buttons pressed
AppRoleIds == {"frontend", "data-scientist"}

\* accepted clicks on Run Analysis, and on a delete button, in one run
MaxAnalyses == 2
MaxDeletes == 1

\* the rows of the history list the user clicks, on the row or on its delete
\* button: the first and the last
ClickedRows(list) == {1, Len(list)} \cap (1..Len(list))

\* [result, ...prev].slice(0, 10)
HistoryLimit == 10

\* every text the text area can hold
ResumeTexts == {""} \cup AppTexts \cup {SAMPLE_RESUME}

\* !resumeText.trim(), for every text the text area can hold
IsBlank == [t \in ResumeTexts |-> trim(Chars(t)) = <<>>]

\* the values of Math.random() an analysis the App runs can be given
AppRandoms ==
    UNION {AppRandomStreams(RandomCalls(t, id)) : t \in ResumeTexts, id \in AppRoleIds}

\* analyzeResume(t, id) for every text the text area can hold and every role
\* that can be chosen, before its id and timestamp are drawn
Analyses ==
    [t \in ResumeTexts, id \in AppRoleIds, random \in AppRandoms |->
        IF Len(random) = RandomCalls(t, id)
        THEN analyzeResume(t, id, random, "", 0)
        ELSE NoResult]

\* a list that keeps every result
PushHistory_Unbounded(r, prev) == <<r>> \o prev

PushHistory(r, prev) ==
    LET all == <<r>> \o prev
    IN  SubSeq(all, 1, IF Len(all) < HistoryLimit THEN Len(all) ELSE HistoryLimit)

\* prev.filter(item => item.id !== id)
deleteHistoryItem(prev, id) == SelectSeq(prev, LAMBDA item : item.id # id)

\* the button that stays enabled while an analysis is pending
RunAnalysisDisabled_BlankOnly == IsBlank[resumeText]

\* disabled={isAnalyzing || !resumeText.trim()}
RunAnalysisDisabled == isAnalyzing \/ IsBlank[resumeText]

\* the callback handed to setTimeout closes over the resumeText and the
\* selectedRole of the render in which the button was clicked
Closure == [resumeText |-> resumeText, selectedRole |-> selectedRole]

\* a callback that reads the text area when it runs
ClosureText_Live(closure) == resumeText

ClosureText(closure) == closure.resumeText

\* crypto.randomUUID() for the n-th analysis completed since the page was
\* loaded: an id no other result has.  Date.now() is n for that analysis, the
\* time counted from the page load.
UUIDOf(n) == "uuid-" \o ToString(n)

\* the history a page load finds in sessionStorage, left by n analyses of an
\* earlier load of the page in the same tab: newest first, their times
\* before the page load
SavedHistory(n) ==
    [i \in 1..n |->
        analyzeResume("2 years", JOB_ROLES[1].id, <<>>, "saved-" \o ToString(n + 1 - i), -i)]

SavedHistories == {SavedHistory(0), SavedHistory(HistoryLimit)}

\* the state after the first render and its effects
AppInit ==
    /\ resumeText = ""
    /\ selectedRole = JOB_ROLES[1].id
    /\ isAnalyzing = FALSE
    /\ currentResult = NoResult
    /\ history \in SavedHistories
    /\ sessionStorage = history
    /\ timers = <<>>
    /\ clock = 0
    /\ deletions = 0
    /\ text = ""
    /\ roleId = JOB_ROLES[1].id
    /\ pc = "ready"
    /\ result = NoResult

\* onChange={(e) => setResumeText(e.target.value)}
SetResumeText ==
    /\ \E t \in AppTexts : resumeText' = t
    /\ UNCHANGED <<selectedRole, isAnalyzing, currentResult, history, sessionStorage,
                   timers, clock, deletions, callVars>>

\* onClick={() => setSelectedRole(role.id)}
SetSelectedRole ==
    /\ \E id \in AppRoleIds : selectedRole' = id
    /\ UNCHANGED <<resumeText, isAnalyzing, currentResult, history, sessionStorage,
                   timers, clock, deletions, callVars>>

loadSample ==
    /\ resumeText' = SAMPLE_RESUME
    /\ selectedRole' = "frontend"
    /\ UNCHANGED <<isAnalyzing, currentResult, history, sessionStorage,
                   timers, clock, deletions, callVars>>

\* a click on Run Analysis when the button is not disabled
handleAnalyze ==
    /\ ~RunAnalysisDisabled
    /\ clock + Len(timers) < MaxAnalyses
    /\ IF IsBlank[resumeText]
       THEN UNCHANGED <<isAnalyzing, timers>>
       ELSE /\ isAnalyzing' = TRUE
            /\ timers' = Append(timers, Closure)
    /\ UNCHANGED <<resumeText, selectedRole, currentResult, history, sessionStorage,
                   clock, deletions, callVars>>

\* a callback that leaves a result the user chose on display
Timeout_KeepsDisplayed ==
    /\ timers # <<>>
    /\ LET closure == Head(timers)
           txt == ClosureText(closure)
           id == closure.selectedRole
       IN  \E random \in {r \in AppRandoms : Analyses[txt, id, r] # NoResult} :
              LET r == [Analyses[txt, id, random]
                           EXCEPT !.id = UUIDOf(clock + 1), !.timestamp = clock + 1]
              IN  /\ currentResult' = IF currentResult = NoResult THEN r ELSE currentResult
                  /\ history' = PushHistory(r, history)
    /\ sessionStorage' = history'
    /\ isAnalyzing' = FALSE
    /\ timers' = Tail(timers)
    /\ clock' = clock + 1
    /\ UNCHANGED <<resumeText, selectedRole, deletions, callVars>>

\* the callback of the oldest pending timer runs
Timeout ==
    /\ timers # <<>>
    /\ LET closure == Head(timers)
           txt == ClosureText(closure)
           id == closure.selectedRole
       IN  \E random \in {r \in AppRandoms : Analyses[txt, id, r] # NoResult} :
              LET r == [Analyses[txt, id, random]
                           EXCEPT !.id = UUIDOf(clock + 1), !.timestamp = clock + 1]
              IN  /\ currentResult' = r
                  /\ history' = PushHistory(r, history)
    /\ sessionStorage' = history'
    /\ isAnalyzing' = FALSE
    /\ timers' = Tail(timers)
    /\ clock' = clock + 1
    /\ UNCHANGED <<resumeText, selectedRole, deletions, callVars>>

\* onClick={() => setCurrentResult(item)}
SelectHistoryItem ==
    /\ \E i \in ClickedRows(history) : currentResult' = history[i]
    /\ UNCHANGED <<resumeText, selectedRole, isAnalyzing, history, sessionStorage,
                   timers, clock, deletions, callVars>>

\* a delete that also takes the deleted result off display
DeleteHistoryItem_ClearsDisplayed ==
    /\ deletions < MaxDeletes
    /\ \E i \in ClickedRows(history) :
          /\ history' = deleteHistoryItem(history, history[i].id)
          /\ currentResult' = IF currentResult.id = history[i].id THEN NoResult
                              ELSE currentResult
    /\ sessionStorage' = history'
    /\ deletions' = deletions + 1
    /\ UNCHANGED <<resumeText, selectedRole, isAnalyzing, timers, clock, callVars>>

\* onClick={(e) => deleteHistoryItem(item.id, e)}
DeleteHistoryItem ==
    /\ deletions < MaxDeletes
    /\ \E i \in ClickedRows(history) : history' = deleteHistoryItem(history, history[i].id)
    /\ sessionStorage' = history'
    /\ deletions' = deletions + 1
    /\ UNCHANGED <<resumeText, selectedRole, isAnalyzing, currentResult,
                   timers, clock, callVars>>

AppNext ==
    \/ SetResumeText
    \/ SetSelectedRole
    \/ loadSample
    \/ handleAnalyze
    \/ Timeout
    \/ SelectHistoryItem
    \/ DeleteHistoryItem

AppSpec == AppInit /\ [][AppNext]_vars

\* the browser runs the callback of a timer that is due
AppFairSpec == AppSpec /\ WF_vars(Timeout)

(***************************************************************************)
(* Properties                                                              *)
(***************************************************************************)
Returned == pc = "returned"

\* the catalog entry a result names
RoleOf(r) == JOB_ROLES[CHOOSE i \in 1..Len(JOB_ROLES) : JOB_ROLES[i].title = r.jobRole]

\* the number of Skill records of a type in a result
CountType(r, type) == Cardinality({i \in 1..Len(r.skills) : r.skills[i].type = type})

\* a result without the fields that differ from call to call
Comparable(r) ==
    [r EXCEPT !.id = "", !.timestamp = 0,
              !.skills = [i \in 1..Len(r.skills) |->
                              [r.skills[i] EXCEPT !.proficiency = 0]]]

\* analyzeResume(t, id of the first catalog role), for every text
FirstRoleResult ==
    [t \in Texts |->
        Comparable(analyzeResume(t, JOB_ROLES[1].id,
                                 [i \in 1..RandomCalls(t, JOB_ROLES[1].id) |-> FZero],
                                 "uuid-0", 0))]

\* C1: for a roleId that is not the id of a catalog role the call returns a
\* result that equals the result for the first catalog role in every field
\* except id, timestamp and the skills' proficiency values.
C1_UnknownRoleIsFirstRole ==
    (Returned /\ roleId \notin CatalogIds) =>
        /\ DOMAIN result = DOMAIN FirstRoleResult[text]
        /\ Comparable(result) = FirstRoleResult[text]

C1_Witness ==
    /\ Returned
    /\ roleId \notin CatalogIds
    /\ result.jobRole = JOB_ROLES[1].title
    /\ CountType(result, "technical") > 0
    /\ CountType(result, "soft") > 0

\* C2: score and the three breakdown values are integers in 0..100, every
\* technical proficiency is in 70..99 and every soft proficiency in 80..99.
C2_Ranges ==
    Returned =>
        /\ result.score \in 0..100
        /\ result.breakdown.skills \in 0..100
        /\ result.breakdown.experience \in 0..100
        /\ result.breakdown.education \in 0..100
        /\ \A i \in 1..Len(result.skills) :
              /\ result.skills[i].type = "technical"
                    => result.skills[i].proficiency \in 70..99
              /\ result.skills[i].type = "soft"
                    => result.skills[i].proficiency \in 80..99

C2_Witness ==
    /\ Returned
    /\ result.breakdown.education = 100
    /\ \E i \in 1..Len(result.skills) :
          result.skills[i].type = "technical" /\ result.skills[i].proficiency = 99
    /\ \E i \in 1..Len(result.skills) :
          result.skills[i].type = "soft" /\ result.skills[i].proficiency = 80

MinOf(a, b) == IF a < b THEN a ELSE b

\* floor(t/L * 100 * 0.5 + min(100, y/m * 100) * 0.3 + e * 0.2) over the
\* rationals, all three terms brought to the denominator 10 * L * m
ExactScore(t, L, y, m, e) ==
    (500 * t * m + 3 * MinOf(100 * m, 100 * y) * L + 2 * e * L * m) \div (10 * L * m)

\* floor((t/L * 100 + s/S * 100) / 2) over the rationals
ExactSkillsBreakdown(t, L, s, S) == (100 * t * S + 100 * s * L) \div (2 * L * S)

\* C3: the overall score is floor(technicalScore * 0.5 + experienceRelevance
\* * 0.3 + educationScore * 0.2) with technicalScore = matched technical
\* keywords / total technical keywords * 100, whatever the number of matched
\* soft keywords, and breakdown.skills is floor((technicalScore + softScore) / 2).
C3_ScoreIsWeightedFloor ==
    Returned =>
        LET role == RoleOf(result)
            t == CountType(result, "technical")
            s == CountType(result, "soft")
        IN  /\ result.score = ExactScore(t, Len(role.keywords),
                                         result.experience.years, role.minYears,
                                         result.breakdown.education)
            /\ result.breakdown.skills =
                   ExactSkillsBreakdown(t, Len(role.keywords), s, Len(role.softSkills))

\* C4 as stated: the reported relevance is min(100, round(years / minYears * 100)).
C4_RelevanceRounded ==
    Returned =>
        LET m == RoleOf(result).minYears
            y == result.experience.years
        IN  result.experience.relevance = MinOf(100, (200 * y + m) \div (2 * m))

\* C4, amended: the reported relevance (experience.relevance and
\* breakdown.experience) is min(100, floor(years / minYears * 100)): the ratio
\* is rounded down, years = 2 against minYears = 3 gives 66.
C4_RelevanceFloored ==
    Returned =>
        LET m == RoleOf(result).minYears
            y == result.experience.years
        IN  /\ result.experience.relevance = MinOf(100, (100 * y) \div m)
            /\ result.breakdown.experience = result.experience.relevance

C4_Witness ==
    /\ Returned
    /\ result.experience.years = 2
    /\ RoleOf(result).minYears = 3
    /\ result.experience.relevance = 66

Greatest(S) == CHOOSE x \in S : \A y \in S : y <= x

\* the integers of the "<integer> year" phrases of a text: a run of digits,
\* then white space, then the letters y-e-a-r in any case
YearPhraseValuesOf(cs) ==
    { DecimalValue(SubSeq(cs, p[1], p[2])) :
        p \in { q \in {i \in 1..Len(cs) : cs[i] \in DigitChars} \X (1..Len(cs)) :
                  /\ q[1] <= q[2]
                  /\ \A k \in q[1]..q[2] : cs[k] \in DigitChars
                  /\ \E w \in (q[2] + 1)..Len(cs) :
                        /\ \A k \in (q[2] + 1)..w : cs[k] \in WhiteSpace
                        /\ OccursAtIgnoreCase(cs, Chars("year"), w + 1) } }

\* where the second year of a range that starts at i can start: after the
\* four digits at i, a hyphen with white space allowed on both sides
RangeTailsOf(cs, i) ==
    { t \in (i + 5)..Len(cs) :
        \E h \in {k \in (i + 4)..(t - 1) : cs[k] = "-"} :
            \A k \in ((i + 4)..(h - 1)) \cup ((h + 1)..(t - 1)) :
                cs[k] \in WhiteSpace }

\* the places <<first, last>> where a text reads "<4 digits> - <4 digits or
\* Present>"
RangeOccurrencesOf(cs) ==
    UNION { { <<i, t + 3>> : t \in {u \in RangeTailsOf(cs, i) : FourDigitsAt(cs, u)} }
            \cup
            { <<i, t + 6>> : t \in {u \in RangeTailsOf(cs, i) :
                                      OccursAtIgnoreCase(cs, Chars("present"), u)} }
            : i \in {j \in 1..Len(cs) : FourDigitsAt(cs, j)} }

\* the ranges a scan from left to right finds among the occurrences: no two
\* overlap, and one that is left out starts inside one found before it
RangesFoundOf(occurrences) ==
    CHOOSE M \in SUBSET occurrences :
        /\ \A a \in M, b \in M : a # b => (a[2] < b[1] \/ b[2] < a[1])
        /\ \A o \in occurrences \ M :
              \E m \in M : m[1] < o[1] /\ o[1] <= m[2]

YearPhraseValues == [t \in Texts |-> YearPhraseValuesOf(Chars(t))]
RangeOccurrences == [t \in Texts |-> RangeOccurrencesOf(Chars(t))]
RangesFound == [t \in Texts |-> RangesFoundOf(RangeOccurrences[t])]

\* C5: with at least one "<integer> year(s)" phrase years is the greatest
\* integer of those phrases, whatever date ranges there are; otherwise it is
\* twice the number of date ranges found, 0 when there is none.
C5_YearsTwoTiers ==
    Returned =>
        result.experience.years =
            IF YearPhraseValues[text] # {}
            THEN Greatest(YearPhraseValues[text])
            ELSE 2 * Cardinality(RangesFound[text])

C5_Witness ==
    /\ Returned
    /\ YearPhraseValues[text] = {0}
    /\ RangesFound[text] # {}
    /\ result.experience.years = 0

StartsWith(str, prefix) ==
    Len(prefix) <= Len(str) /\ SubSeq(str, 1, Len(prefix)) = prefix

\* C6: recommendations has six entries in the fixed slot order: technical
\* keywords (gap text iff matched technical keywords < half the role's
\* count), experience (gap text iff years < minYears), certifications, soft
\* skills (suggestion iff fewer than 2 matched), and the two fixed strings.
C6_SixSlots ==
    Returned =>
        LET r == result.recommendations
            role == RoleOf(result)
        IN  /\ Len(r) = 6
            /\ IF 2 * CountType(result, "technical") < Len(role.keywords)
               THEN StartsWith(r[1], "Add more technical keywords like ")
               ELSE r[1] = "Great technical keyword density."
            /\ IF result.experience.years < role.minYears
               THEN StartsWith(r[2], "Highlight more relevant projects to compensate for ")
               ELSE r[2] = "Experience level meets or exceeds role requirements."
            /\ r[3] \in {AddCertifications, GoodCertification}
            /\ IF CountType(result, "soft") < 2
               THEN r[4] = ElaborateSoftSkills
               ELSE r[4] = "Soft skills are well-represented."
            /\ r[5] = QuantifyAchievements
            /\ r[6] = AlignSummary

C6_Witness ==
    /\ Returned
    /\ 2 * CountType(result, "technical") = Len(RoleOf(result).keywords)
    /\ result.recommendations[1] = GreatDensity
    /\ result.recommendations[4] = ElaborateSoftSkills

\* does the text read "certification", in any letter case
MentionsCertification ==
    [t \in Texts |->
        \E i \in 1..Len(t) : OccursAtIgnoreCase(Chars(t), Chars("certification"), i)]

\* the tokens of a vocabulary that a text contains verbatim
TokensIn(t, vocabulary) ==
    {vocabulary[i] : i \in {j \in 1..Len(vocabulary) :
                              includes(Chars(t), Chars(vocabulary[j]))}}

DegreeTokens == [t \in Texts |-> TokensIn(t, DEGREES)]
CertificationTokens == [t \in Texts |-> TokensIn(t, CERTIFICATIONS)]

\* C7: slot 3 is the add-certifications suggestion exactly when the text does
\* not read "certification" in any case, whatever the certifications found:
\* "B.S." without a certification token gives degrees, no certifications,
\* education 100; certifications found without the word keep the suggestion.
C7_CertificationSlot ==
    Returned =>
        /\ result.recommendations[3] =
              IF MentionsCertification[text] THEN GoodCertification
              ELSE AddCertifications
        /\ ("B.S." \in DegreeTokens[text] /\ CertificationTokens[text] = {})
              => /\ result.education.degrees # <<>>
                 /\ result.education.certifications = <<>>
                 /\ result.breakdown.education = 100
        /\ (result.education.certifications # <<>> /\ ~MentionsCertification[text])
              => result.recommendations[3] = AddCertifications

C7_Witness ==
    /\ Returned
    /\ "AWS" \in CertificationTokens[text]
    /\ result.education.certifications # <<>>
    /\ ~MentionsCertification[text]
    /\ result.recommendations[3] = AddCertifications

\* C8: for the empty text the call returns no skills, years = 0, no degrees,
\* no certifications and the overall score 10.
C8_EmptyText ==
    (Returned /\ text = "") =>
        /\ result.skills = <<>>
        /\ result.experience.years = 0
        /\ result.education.degrees = <<>>
        /\ result.education.certifications = <<>>
        /\ result.score = 10

C8_Witness ==
    /\ Returned
    /\ text = ""
    /\ roleId = "product-manager"
    /\ result.score = 10

\* C9: for the empty text candidateName is "Unknown Candidate".
C9_EmptyTextUnknownCandidate ==
    (Returned /\ text = "") => result.candidateName = "Unknown Candidate"

\* the number of characters before the first line feed
FirstLineLengthOf(cs) ==
    IF \E i \in 1..Len(cs) : cs[i] = "\n"
    THEN Least({i \in 1..Len(cs) : cs[i] = "\n"}) - 1
    ELSE Len(cs)

\* the first line from its first to its last character that is not white space
TrimmedFirstLineOf(cs) ==
    LET inside == {i \in 1..FirstLineLengthOf(cs) : cs[i] \notin WhiteSpace}
    IN  IF inside = {} THEN "" ELSE Str(SubSeq(cs, Least(inside), Greatest(inside)))

FirstLineLength == [t \in Texts |-> FirstLineLengthOf(Chars(t))]
TrimmedFirstLine == [t \in Texts |-> TrimmedFirstLineOf(Chars(t))]

\* C10: candidateName is the trimmed first line when that has fewer than 50
\* characters and "Unknown Candidate" otherwise, the length being taken
\* after trimming.
C10_CandidateName ==
    Returned =>
        result.candidateName =
            IF Len(TrimmedFirstLine[text]) < 50 THEN TrimmedFirstLine[text]
            ELSE "Unknown Candidate"

C10_Witness ==
    /\ Returned
    /\ FirstLineLength[text] = 50
    /\ Len(TrimmedFirstLine[text]) = 49
    /\ result.candidateName = TrimmedFirstLine[text]

\* every keyword of the catalog, technical or soft
AllKeywords ==
    UNION {{JOB_ROLES[n].keywords[i] : i \in 1..Len(JOB_ROLES[n].keywords)}
           \cup {JOB_ROLES[n].softSkills[i] : i \in 1..Len(JOB_ROLES[n].softSkills)}
           : n \in 1..Len(JOB_ROLES)}

\* the keywords in lower case
LowerKeyword == [k \in AllKeywords |-> toLowerCase(Chars(k))]

\* the keywords whose lower-case form occurs somewhere in lowered, a text in
\* lower case
KeywordsOccurringIn(lowered) ==
    {k \in AllKeywords :
        \E i \in 1..(Len(lowered) - Len(LowerKeyword[k]) + 1) :
            \A j \in 1..Len(LowerKeyword[k]) : lowered[i + j - 1] = LowerKeyword[k][j]}

\* the keywords that occur somewhere in a text, letter case apart
KeywordsOccurring == [t \in Texts |-> KeywordsOccurringIn(toLowerCase(Chars(t)))]

\* the place of a Skill record in the role's catalog: technical keywords in
\* catalog order, then soft keywords in catalog order; 0 when the record
\* names no keyword of its type
CatalogRank(role, skill) ==
    IF skill.type = "technical"
    THEN IF \E n \in 1..Len(role.keywords) : role.keywords[n] = skill.name
         THEN CHOOSE n \in 1..Len(role.keywords) : role.keywords[n] = skill.name
         ELSE 0
    ELSE IF \E n \in 1..Len(role.softSkills) : role.softSkills[n] = skill.name
         THEN Len(role.keywords)
              + (CHOOSE n \in 1..Len(role.softSkills) : role.softSkills[n] = skill.name)
         ELSE 0

\* C11: a keyword of the role, technical or soft, has a Skill record iff the
\* text contains it as a substring with letter case ignored; skills holds one
\* record per matched keyword, named as the catalog spells it, the matched
\* technical keywords in catalog order and then the matched soft keywords in
\* catalog order.
C11_SkillsAreMatchedKeywords ==
    Returned =>
        LET role == RoleOf(result)
            s == result.skills
        IN  /\ \A i \in 1..Len(s) :
                  /\ s[i].type \in {"technical", "soft"}
                  /\ CatalogRank(role, s[i]) # 0
            /\ \A n \in 1..Len(role.keywords) :
                  (\E i \in 1..Len(s) :
                      s[i].type = "technical" /\ s[i].name = role.keywords[n])
                  <=> role.keywords[n] \in KeywordsOccurring[text]
            /\ \A n \in 1..Len(role.softSkills) :
                  (\E i \in 1..Len(s) :
                      s[i].type = "soft" /\ s[i].name = role.softSkills[n])
                  <=> role.softSkills[n] \in KeywordsOccurring[text]
            /\ \A i, j \in 1..Len(s) :
                  i < j => CatalogRank(role, s[i]) < CatalogRank(role, s[j])

C11_Witness ==
    /\ Returned
    /\ roleId = "frontend"
    /\ [i \in 1..Len(result.skills) |-> result.skills[i].name]
          = <<"React", "TypeScript", "CSS", "Communication", "Teamwork">>
    /\ ~includes(Chars(text), Chars("Communication"))
    /\ ~includes(Chars(text), Chars("Teamwork"))

\* does a token occur in a text letter for letter
OccursVerbatim(t, token) ==
    \E i \in 1..(Len(t) - Len(token) + 1) : SubSeq(t, i, i + Len(token) - 1) = token

\* the places in a vocabulary of the tokens that occur verbatim in a text
VerbatimPlaces(t, vocabulary) ==
    {n \in 1..Len(vocabulary) : OccursVerbatim(t, vocabulary[n])}

DegreePlaces == [t \in Texts |-> VerbatimPlaces(t, DEGREES)]
CertificationPlaces == [t \in Texts |-> VerbatimPlaces(t, CERTIFICATIONS)]

\* found lists exactly the tokens at the given places, in vocabulary order
IsSubList(found, vocabulary, places) ==
    /\ Len(found) = Cardinality(places)
    /\ \A i \in 1..Len(found) :
          \E n \in places :
              /\ found[i] = vocabulary[n]
              /\ Cardinality({m \in places : m < n}) = i - 1

\* C12: degrees and certifications are the vocabulary tokens that occur in
\* the text letter for letter, in vocabulary order; a token written in
\* another letter case is left out; breakdown.education is 100 when degrees
\* is not empty and 50 when it is.
C12_CaseSensitiveTokens ==
    Returned =>
        /\ IsSubList(result.education.degrees, DEGREES, DegreePlaces[text])
        /\ IsSubList(result.education.certifications, CERTIFICATIONS,
                     CertificationPlaces[text])
        /\ result.breakdown.education =
              IF result.education.degrees # <<>> THEN 100 ELSE 50

C12_Witness ==
    /\ Returned
    /\ \E i \in 1..Len(text) : OccursAtIgnoreCase(Chars(text), Chars("M.S."), i)
    /\ result.education.degrees = <<>>
    /\ result.education.certifications = <<"AWS">>
    /\ result.breakdown.education = 50

(***************************************************************************)
(* Properties of the App                                                   *)
(***************************************************************************)
\* the ids of the results in a list
Ids(list) == {list[i].id : i \in 1..Len(list)}

\* a step in which a pending analysis completes, and one in which a delete
\* button is clicked
Completes == clock' = clock + 1
Deletes == deletions' = deletions + 1

\* at most 10 results, each newer than the one after it, no id twice
HistoryInOrder ==
    /\ Len(history) <= 10
    /\ \A i, j \in 1..Len(history) :
          i < j => /\ history[i].timestamp > history[j].timestamp
                   /\ history[i].id # history[j].id

\* the new result goes to the front; with 10 results held the last one, the
\* oldest, is dropped and the nine before it stay as they were
InsertsAtFront ==
    Completes =>
        /\ history'[1].id \notin Ids(history)
        /\ IF Len(history) = 10
           THEN /\ Len(history') = 10
                /\ \A i \in 1..9 : history'[i + 1] = history[i]
           ELSE /\ Len(history') = Len(history) + 1
                /\ \A i \in 1..Len(history) : history'[i + 1] = history[i]

\* one result leaves, the one with the id given
RemovesOne ==
    Deletes =>
        \E id \in Ids(history) :
            /\ Ids(history') = Ids(history) \ {id}
            /\ Len(history') = Len(history) - 1

\* C13: history holds at most 10 results, newest first; an analysis that
\* completes with 10 results held puts its result in front and drops exactly
\* the oldest; deleting by id removes the result with that id and no other.
C13_HistoryBounded ==
    /\ []HistoryInOrder
    /\ [][InsertsAtFront]_vars
    /\ [][RemovesOne]_vars

\* ten saved results, one analysis that dropped the oldest, then the last
\* row deleted
C13_Witness ==
    /\ clock = 1
    /\ deletions = 1
    /\ Len(history) = 9
    /\ history[1].id = UUIDOf(1)
    /\ history[2].id = "saved-10"
    /\ history[9].id = "saved-3"

\* a text of white space alone, or of nothing
Blank(t) == \A i \in 1..Len(t) : SubSeq(t, i, i) \in WhiteSpace

\* the results of the analyses run since the page was loaded, among those
\* held or displayed
RunHere(r) == r # NoResult /\ r.timestamp > 0

\* no pending callback holds a blank text and no result was made from one
\* (rawText is the text analyzeResume was given)
NoBlankAnalysis ==
    /\ \A i \in 1..Len(timers) : ~Blank(timers[i].resumeText)
    /\ \A i \in 1..Len(history) : RunHere(history[i]) => ~Blank(history[i].rawText)
    /\ RunHere(currentResult) => ~Blank(currentResult.rawText)

\* the callback is given the text of the text area at the click
CapturesAtClick ==
    Len(timers') > Len(timers) =>
        /\ ~Blank(resumeText)
        /\ timers'[Len(timers')].resumeText = resumeText

\* the analysis is given the text the callback was given at the click
AnalysesCaptured ==
    Completes => currentResult'.rawText = timers[1].resumeText

\* C14: analyzeResume is never called with an empty or white-space-only
\* text: the text it is given when the timer fires is the text that passed
\* the check at the click, whatever the text area holds by then.
C14_NeverBlank ==
    /\ []NoBlankAnalysis
    /\ [][CapturesAtClick]_vars
    /\ [][AnalysesCaptured]_vars

\* the text area was blanked while the analysis of the sample is pending
C14_Witness ==
    /\ isAnalyzing
    /\ Len(timers) = 1
    /\ timers[1].resumeText = SAMPLE_RESUME
    /\ resumeText = " \n"

\* one callback pending exactly while isAnalyzing, and the button disabled
OnePending ==
    /\ Len(timers) <= 1
    /\ isAnalyzing <=> timers # <<>>
    /\ isAnalyzing => RunAnalysisDisabled

\* a click is accepted only when nothing is pending
AcceptsWhenIdle ==
    Len(timers') > Len(timers) =>
        /\ ~isAnalyzing
        /\ isAnalyzing'
        /\ timers = <<>>
        /\ Len(timers') = 1

\* a completion ends the one pending analysis and adds one result
AddsOneResult ==
    Completes =>
        /\ isAnalyzing
        /\ ~isAnalyzing'
        /\ timers' = <<>>
        /\ Ids(history') \ Ids(history) = {currentResult'.id}

\* C15: at most one analysis is pending: from the accepted click until the
\* timer fires isAnalyzing is true and Run Analysis is disabled, so every
\* accepted click adds exactly one result to history and no two timers
\* overlap.
C15_OnePending ==
    /\ []OnePending
    /\ [][AcceptsWhenIdle]_vars
    /\ [][AddsOneResult]_vars

\* a second analysis pending, with a text that would enable the button
C15_Witness ==
    /\ isAnalyzing
    /\ Len(timers) = 1
    /\ clock = 1
    /\ ~Blank(resumeText)

\* history without one of its entries, the others in their order
OneRemoved(after, before) ==
    \E i \in 1..Len(before) :
        after = SubSeq(before, 1, i - 1) \o SubSeq(before, i + 1, Len(before))

\* C16: deleteHistoryItem changes only history: the entries that remain keep
\* their order, and currentResult, resumeText, selectedRole and isAnalyzing
\* stay as they are, so a deleted entry that is displayed stays displayed.
C16_DeleteFrame ==
    [][Deletes =>
          /\ OneRemoved(history', history)
          /\ UNCHANGED <<currentResult, resumeText, selectedRole, isAnalyzing>>]_vars

\* the newest of ten saved results is displayed and no longer in history,
\* while an analysis is pending
C16_Witness ==
    /\ deletions = 1
    /\ isAnalyzing
    /\ currentResult # NoResult
    /\ currentResult.id = "saved-10"
    /\ currentResult.id \notin Ids(history)
    /\ Len(history) = 9
    /\ history[1].id = "saved-9"
    /\ history[9].id = "saved-1"

\* the result displayed right after a completion is the new one, in front
DisplaysNewResult ==
    (isAnalyzing /\ ~isAnalyzing') =>
        /\ currentResult' = history'[1]
        /\ currentResult'.id \notin Ids(history) \cup {currentResult.id}
        /\ \A i \in 1..Len(history) : currentResult'.timestamp > history[i].timestamp

\* C17: an accepted Run Analysis completes once its timer fires: isAnalyzing
\* returns to false, and right after the completion the new result is
\* currentResult and the first of history, whatever history item was chosen
\* for display meanwhile.
C17_Completes ==
    /\ isAnalyzing ~> ~isAnalyzing
    /\ [][DisplaysNewResult]_vars

\* an older history item is displayed while an analysis is pending
C17_Witness ==
    /\ isAnalyzing
    /\ timers # <<>>
    /\ \E i \in 2..Len(history) : currentResult = history[i]

====
